---------------------------- MODULE Spec2Model ----------------------------
(***************************************************************************)
(* divine.py: pick N_PICKS stocks from an image of latte foam.             *)
(*                                                                         *)
(* The image is reduced to an SR_BITS**2 bit number, the number is         *)
(* interpolated into [0, comb(len(SP_500), N_PICKS)) in floating point,    *)
(* and the interpolated rank is unranked into a combination of indices     *)
(* into SP_500.                                                            *)
(*                                                                         *)
(* The model runs the module import (the precision assert), then one call: *)
(* the script (_main -> _pick_stocks), or a direct call of _get_ith_comb   *)
(* or of _interp_49_bit with arguments of the caller's choosing.  The loop *)
(* of _get_ith_comb is one action per iteration.                           *)
(*                                                                         *)
(* Scaling.  SR_BITS is 7 in the source (a 49 bit digest); here it is 2,   *)
(* so that every digest can be enumerated.  A Python float is an IEEE      *)
(* binary64 with 53 = 49 + 4 mantissa bits; the model keeps the 4 bits of  *)
(* slack: DBL_MANT_DIG == SR_BITS^2 + 4.  SP_500 holds 503 symbols in the  *)
(* source; here it holds N_PICKS .. MaxUniverse symbols.                   *)
(***************************************************************************)
EXTENDS Integers, Sequences, FiniteSets, TLC

\* ------------------------------------------------------------------ bounds
\* divine.py:26 (SR_BITS = 7), scaled down.
SR_BITS == 2
\* Largest n and k of a direct call of _get_ith_comb.
MaxN == 5
\* Largest len(SP_500).
MaxUniverse == 6
\* Largest y_sup of a direct call of _interp_49_bit.
MaxYSup == 40
\* Largest luminance of a resized pixel (255 in an "L" image).
MaxLum == 1

\* divine.py:22
N_PICKS == 4

\* Number of bits of the digest: SR_BITS**2.
DigestBits == SR_BITS * SR_BITS
\* Mantissa bits of a Python float (sys.float_info.mant_dig, 53 for SR_BITS = 7).
DBL_MANT_DIG == DigestBits + 4
\* Mantissa widths of the representations the precision assert is judged on.
MantDigs == 1 .. DBL_MANT_DIG

\* --------------------------------------------------------- integer helpers
RECURSIVE Pow2(_)
Pow2(e) == IF e <= 0 THEN 1 ELSE 2 * Pow2(e - 1)

\* int.bit_length()
RECURSIVE BitLength(_)
BitLength(a) == IF a <= 0 THEN 0 ELSE 1 + BitLength(a \div 2)

\* math.comb(n_, k_) for n_ >= 0, k_ >= 0: 0 when k_ > n_.
RECURSIVE Comb(_, _)
Comb(n_, k_) ==
    IF k_ > n_ THEN 0
    ELSE IF k_ = 0 THEN 1
    ELSE (Comb(n_ - 1, k_ - 1) * n_) \div k_

\* ---------------------------------------------------------- float helpers
\* A float is [m |-> mantissa, e |-> e], the value m / 2^e, m >= 0.  The
\* exponent range is not modelled (no value here comes near it).

\* The integer a >= 0 rounded to p significant bits, ties to even.
RoundToPrec(a, p) ==
    IF BitLength(a) <= p THEN a
    ELSE LET t    == Pow2(BitLength(a) - p)
             q    == a \div t
             r    == a % t
             half == t \div 2
         IN  IF r > half \/ (r = half /\ q % 2 = 1)
             THEN (q + 1) * t
             ELSE q * t

\* a / 2**e of two ints (true division, correctly rounded).
TrueDiv(a, e, p) == [m |-> RoundToPrec(a, p), e |-> e]

\* float * int: the int is converted to float, the product is rounded.
FloatMul(f, y, p) == [m |-> RoundToPrec(f.m * RoundToPrec(y, p), p), e |-> f.e]

\* Mutant of Floor: the float is rounded up.
Ceil(f) == (f.m + Pow2(f.e) - 1) \div Pow2(f.e)

\* math.floor(float)
Floor(f) == f.m \div Pow2(f.e)


\* ------------------------------------------------------------------ state
VARIABLES
    mant_dig,   \* mantissa bits of the platform's float
    SP_500,     \* the module's list of symbols
    pc,         \* where the program is, or the exception that ended it
    caller,     \* "_main" (the script) or "direct" (a call of one function)
    image,      \* the resized images: rows_mono_image, cols_mono_image, average_l
    rows, cols, \* _get_bin_str_from_image: the thresholded samples
    x, y_sup,   \* _interp_49_bit: its arguments
    choice,     \* _interp_49_bit: its return value
    n, k, idx,  \* _get_ith_comb: its arguments
    n_p, k_p, above, result,   \* _get_ith_comb: its locals
    iter,       \* _get_ith_comb: iterations of range(0, k) done
    picks       \* _pick_sp500_symbols: its return value

vars == <<mant_dig, SP_500, pc, caller, image, rows, cols, x, y_sup, choice,
          n, k, idx, n_p, k_p, above, result, iter, picks>>

combVars == <<n, k, idx, n_p, k_p, above, result, iter>>
imageVars == <<image, rows, cols>>

\* ------------------------------------------------------- the pure pieces
Symbols == <<"AAA", "BBB", "CCC", "DDD", "EEE", "FFF", "GGG", "HHH", "III">>

\* A list of len_ unique symbols.
Universe(len_) == SubSeq(Symbols, 1, len_)

Lum == 0 .. MaxLum

\* The three resizes of the mono image: (SR_BITS, 1), (1, SR_BITS) and (1, 1).
Images ==
    [rows_mono_image : [1 .. SR_BITS -> Lum],
     cols_mono_image : [1 .. SR_BITS -> Lum],
     average_l       : Lum]

\* (np.array(img) > average_l).flatten()
Threshold(img, average_l) == [j \in 1 .. Len(img) |-> img[j] > average_l]

\* Mutant of ItProduct: b's index outer and a's index inner.
ItProductColsOuter(a, b) ==
    [p \in 1 .. Len(a) * Len(b) |->
        <<a[((p - 1) % Len(a)) + 1], b[((p - 1) \div Len(a)) + 1]>>]

\* it.product(a, b): the pairs, a's index outer and b's index inner.
ItProduct(a, b) ==
    [p \in 1 .. Len(a) * Len(b) |->
        <<a[((p - 1) \div Len(b)) + 1], b[((p - 1) % Len(b)) + 1]>>]

\* str(int(r == c))
StrIntEq(r, c) == IF r = c THEN "1" ELSE "0"

\* "0b" + "".join(str(int(r == c)) for r, c in it.product(rows_, cols_))
BinStr(rows_, cols_) ==
    <<"0", "b">> \o [p \in 1 .. Len(rows_) * Len(cols_) |->
                        StrIntEq(ItProduct(rows_, cols_)[p][1],
                                 ItProduct(rows_, cols_)[p][2])]

\* Mutant of IntOfDigits: the first digit is read as the least significant.
RECURSIVE IntOfDigitsLsbFirst(_)
IntOfDigitsLsbFirst(s) ==
    IF s = <<>> THEN 0
    ELSE 2 * IntOfDigitsLsbFirst(SubSeq(s, 2, Len(s)))
         + (IF s[1] = "1" THEN 1 ELSE 0)

\* int(s, 2) of a string of binary digits, the first digit most significant.
RECURSIVE IntOfDigits(_)
IntOfDigits(s) ==
    IF s = <<>> THEN 0
    ELSE 2 * IntOfDigits(SubSeq(s, 1, Len(s) - 1))
         + (IF s[Len(s)] = "1" THEN 1 ELSE 0)

\* int(s, 2): the "0b" prefix is skipped.
IntBase2(s) ==
    IF Len(s) >= 2 /\ s[1] = "0" /\ s[2] = "b"
    THEN IntOfDigits(SubSeq(s, 3, Len(s)))
    ELSE IntOfDigits(s)

\* math.floor(int(x_, 2) / 2 ** (SR_BITS**2) * y_sup_) on a float of p bits.
Interp49Bit(x_, y_sup_, p) ==
    Floor(FloatMul(TrueDiv(IntBase2(x_), DigestBits, p), y_sup_, p))

\* Mutant of ScanDown: the candidates are scanned upwards, so the smallest
\* qualifying candidate is found.
ScanUp(c, k_p_, above_) ==
    LET qualifying == {q \in 0 .. c : Comb(q, k_p_) <= above_}
    IN  IF qualifying = {} THEN -1
        ELSE CHOOSE q \in qualifying : \A r \in qualifying : q <= r

\* Mutant of ScanDown: the comparison is strict.
RECURSIVE ScanDownStrict(_, _, _)
ScanDownStrict(c, k_p_, above_) ==
    IF c < 0 THEN -1
    ELSE IF Comb(c, k_p_) < above_ THEN c
    ELSE ScanDownStrict(c - 1, k_p_, above_)

\* next(x for x in scored if x[1] <= above_), scored over reversed(range(n_p_)),
\* from candidate c down: the first c with comb(c, k_p_) <= above_, or -1 when
\* the generator is exhausted (StopIteration).
RECURSIVE ScanDown(_, _, _)
ScanDown(c, k_p_, above_) ==
    IF c < 0 THEN -1
    ELSE IF Comb(c, k_p_) <= above_ THEN c
    ELSE ScanDown(c - 1, k_p_, above_)

\* Mutant of AboveInit: the rank is not complemented.
AboveInitNoComplement(n_, k_, idx_) == idx_

\* Line 92: above = (math.comb(n, k) - 1) - idx
AboveInit(n_, k_, idx_) == (Comb(n_, k_) - 1) - idx_

\* Mutant of ResultItem: off by one.
ResultItemOffByOne(n_, found) == n_ - found

\* Line 96: the item appended for the candidate found, n - 1 - n_p.
ResultItem(n_, found) == n_ - 1 - found

\* The strings "0b" + SR_BITS**2 binary digits.
BinStrings ==
    {<<"0", "b">> \o d : d \in [1 .. DigestBits -> {"0", "1"}]}

\* seq[i_] with a Python index i_ (negative indexes count from the end);
\* InRange is false where Python raises IndexError.
InRange(seq, i_) == -Len(seq) <= i_ /\ i_ < Len(seq)
PyIndex(seq, i_) == IF i_ >= 0 THEN seq[i_ + 1] ELSE seq[Len(seq) + i_ + 1]

\* ------------------------------------------------------------------- init
InitFrames ==
    /\ pc = "import"
    /\ caller = "none"
    /\ image = [rows_mono_image |-> [j \in 1 .. SR_BITS |-> 0],
                cols_mono_image |-> [j \in 1 .. SR_BITS |-> 0],
                average_l |-> 0]
    /\ rows = <<>> /\ cols = <<>>
    /\ x = <<>> /\ y_sup = 0 /\ choice = 0
    /\ n = 0 /\ k = 0 /\ idx = 0
    /\ n_p = 0 /\ k_p = 0 /\ above = 0 /\ result = <<>> /\ iter = 0
    /\ picks = <<>>

\* A Python float is a binary64.
Init ==
    /\ mant_dig = DBL_MANT_DIG
    /\ SP_500 \in {Universe(len_) : len_ \in N_PICKS .. MaxUniverse}
    /\ InitFrames

\* Any representation of floats, for the precision assert.
InitAnyFloat ==
    /\ mant_dig \in MantDigs
    /\ SP_500 \in {Universe(len_) : len_ \in N_PICKS .. MaxUniverse}
    /\ InitFrames

\* ---------------------------------------------------------------- actions
\* assert (2**SR_BITS - 1) / 2**SR_BITS != 1, _msg
PrecisionAssert(p) ==
    TrueDiv(Pow2(SR_BITS) - 1, SR_BITS, p).m # Pow2(SR_BITS)

\* The module is imported: its constants are set and the assert runs.
ImportModule ==
    /\ pc = "import"
    /\ pc' = IF PrecisionAssert(mant_dig) THEN "loaded" ELSE "AssertionError"
    /\ UNCHANGED <<mant_dig, SP_500, caller, picks, x, y_sup, choice>>
    /\ UNCHANGED <<combVars, imageVars>>

\* _main -> _pick_stocks(path): num_choices, then _get_number_from_image.
_pick_stocks ==
    /\ pc = "loaded"
    /\ \E img \in Images : image' = img
    /\ caller' = "_main"
    /\ y_sup' = Comb(Len(SP_500), N_PICKS)
    /\ pc' = "_get_bin_str_from_image"
    /\ UNCHANGED <<mant_dig, SP_500, rows, cols, x, choice, picks, combVars>>

_get_bin_str_from_image ==
    /\ pc = "_get_bin_str_from_image"
    /\ rows' = Threshold(image.rows_mono_image, image.average_l)
    /\ cols' = Threshold(image.cols_mono_image, image.average_l)
    /\ x' = BinStr(rows', cols')
    /\ pc' = "_interp_49_bit"
    /\ UNCHANGED <<mant_dig, SP_500, caller, image, y_sup, choice, picks, combVars>>

\* _pick_stocks with the binary string of the image taken as given: any string
\* of SR_BITS**2 digits, also those no thresholded image produces.
CallPickFromDigest ==
    /\ pc = "loaded"
    /\ caller' = "_main"
    /\ x' \in BinStrings
    /\ y_sup' = Comb(Len(SP_500), N_PICKS)
    /\ pc' = "_interp_49_bit"
    /\ UNCHANGED <<mant_dig, SP_500, choice, picks, combVars, imageVars>>

\* A direct call _interp_49_bit(x, y_sup).
CallInterp ==
    /\ pc = "loaded"
    /\ caller' = "direct"
    /\ x' \in BinStrings
    /\ y_sup' \in 1 .. MaxYSup
    /\ pc' = "_interp_49_bit"
    /\ UNCHANGED <<mant_dig, SP_500, choice, picks, combVars, imageVars>>

_interp_49_bit ==
    /\ pc = "_interp_49_bit"
    /\ choice' = Interp49Bit(x, y_sup, mant_dig)
    /\ pc' = IF caller = "_main" THEN "_pick_sp500_symbols" ELSE "_interp_49_bit_returned"
    /\ UNCHANGED <<mant_dig, SP_500, caller, x, y_sup, picks, combVars, imageVars>>

\* _pick_sp500_symbols(choice) calls _get_ith_comb(len(SP_500), N_PICKS, choice).
_pick_sp500_symbols ==
    /\ pc = "_pick_sp500_symbols"
    /\ n' = Len(SP_500) /\ k' = N_PICKS /\ idx' = choice
    /\ pc' = "_get_ith_comb"
    /\ UNCHANGED <<mant_dig, SP_500, caller, x, y_sup, choice, picks, imageVars>>
    /\ UNCHANGED <<n_p, k_p, above, result, iter>>

\* The arguments of a direct call: any ints around the valid ones.
CombArgs ==
    {a \in [n : -1 .. MaxN, k : -1 .. MaxN + 1, idx : -2 .. Comb(MaxN, MaxN \div 2) + 1] :
        a.n >= 0 /\ a.k >= 0 => a.idx <= Comb(a.n, a.k) + 1}

\* A direct call _get_ith_comb(n, k, idx).
CallGetIthComb ==
    /\ pc = "loaded"
    /\ caller' = "direct"
    /\ \E a \in CombArgs : n' = a.n /\ k' = a.k /\ idx' = a.idx
    /\ pc' = "_get_ith_comb"
    /\ UNCHANGED <<mant_dig, SP_500, x, y_sup, choice, picks, imageVars>>
    /\ UNCHANGED <<n_p, k_p, above, result, iter>>

\* Lines 84-92: the locals; math.comb raises ValueError on a negative argument.
_get_ith_comb ==
    /\ pc = "_get_ith_comb"
    /\ IF n < 0 \/ k < 0
       THEN /\ pc' = "ValueError"
            /\ UNCHANGED <<n_p, k_p, above, result, iter>>
       ELSE /\ result' = <<>>
            /\ n_p' = n
            /\ k_p' = k
            /\ above' = AboveInit(n, k, idx)
            /\ iter' = 0
            /\ pc' = "for"
    /\ UNCHANGED <<mant_dig, SP_500, caller, x, y_sup, choice, picks, imageVars>>
    /\ UNCHANGED <<n, k, idx>>

\* Lines 93-98: one iteration of for _ in range(0, k).
_get_ith_comb_for ==
    /\ pc = "for"
    /\ iter < k
    /\ LET found == ScanDown(n_p - 1, k_p, above)
       IN  IF found < 0
           THEN /\ pc' = "StopIteration"
                /\ UNCHANGED <<n_p, k_p, above, result, iter>>
           ELSE /\ n_p' = found
                /\ result' = Append(result, ResultItem(n, found))
                /\ above' = above - Comb(found, k_p)
                /\ k_p' = k_p - 1
                /\ iter' = iter + 1
                /\ pc' = "for"
    /\ UNCHANGED <<mant_dig, SP_500, caller, x, y_sup, choice, picks, imageVars>>
    /\ UNCHANGED <<n, k, idx>>

\* Line 99: return result.
_get_ith_comb_return ==
    /\ pc = "for"
    /\ iter >= k
    /\ pc' = IF caller = "_main" THEN "_pick_sp500_symbols_return"
                                ELSE "_get_ith_comb_returned"
    /\ UNCHANGED <<mant_dig, SP_500, caller, x, y_sup, choice, picks, imageVars>>
    /\ UNCHANGED combVars

\* Mutant of SelectSymbols: the index is off by one.
SelectSymbolsOffByOne(universe, comb_) ==
    [j \in 1 .. Len(comb_) |-> PyIndex(universe, comb_[j] - 1)]

\* [SP_500[i] for i in result]
SelectSymbols(universe, comb_) == [j \in 1 .. Len(comb_) |-> PyIndex(universe, comb_[j])]

\* Line 108: the list comprehension over the combination.
_pick_sp500_symbols_return ==
    /\ pc = "_pick_sp500_symbols_return"
    /\ IF \A j \in 1 .. Len(result) : InRange(SP_500, result[j])
       THEN picks' = SelectSymbols(SP_500, result) /\ pc' = "_pick_stocks_returned"
       ELSE picks' = picks /\ pc' = "IndexError"
    /\ UNCHANGED <<mant_dig, SP_500, caller, x, y_sup, choice, imageVars, combVars>>

Next ==
    \/ ImportModule
    \/ _pick_stocks
    \/ _get_bin_str_from_image
    \/ CallPickFromDigest
    \/ CallInterp
    \/ _interp_49_bit
    \/ _pick_sp500_symbols
    \/ CallGetIthComb
    \/ _get_ith_comb
    \/ _get_ith_comb_for
    \/ _get_ith_comb_return
    \/ _pick_sp500_symbols_return

Spec == Init /\ [][Next]_vars

SpecAnyFloat == InitAnyFloat /\ [][Next]_vars

\* ----------------------------------------------------------------- claims
\* it.combinations(range(lo, n_), k_): the ascending k_-tuples over lo .. n_-1
\* in lexicographic order (the enumeration _get_ith_comb's docstring names).
RECURSIVE ItCombinations(_, _, _)
RECURSIVE ItCombinationsFrom(_, _, _)
ItCombinationsFrom(first, n_, k_) ==
    IF first >= n_ THEN <<>>
    ELSE LET tails == ItCombinations(first + 1, n_, k_ - 1)
         IN  [t \in 1 .. Len(tails) |-> <<first>> \o tails[t]]
             \o ItCombinationsFrom(first + 1, n_, k_)
ItCombinations(lo, n_, k_) ==
    IF k_ = 0 THEN << <<>> >> ELSE ItCombinationsFrom(lo, n_, k_)

\* _get_ith_comb has returned (to its direct caller or to _pick_sp500_symbols).
CombReturned ==
    pc \in {"_get_ith_comb_returned", "_pick_sp500_symbols_return",
            "_pick_stocks_returned", "IndexError"}

\* _get_ith_comb has been entered with the arguments n, k, idx.
CombEntered == CombReturned \/ pc \in {"for", "StopIteration", "ValueError"}

\* The precondition: 0 <= k <= n and 0 <= idx < C(n, k), C(n, k) counted on the
\* enumeration itself.
ValidArgs ==
    /\ 0 <= k /\ k <= n
    /\ 0 <= idx /\ idx < Len(ItCombinations(0, n, k))

\* C1: for valid (n, k, idx) _get_ith_comb returns, and returns the idx-th
\* element of the lexicographic enumeration of the ascending k-tuples over
\* 0 .. n-1 (so idx -> result is a bijection onto the k-combinations, the
\* enumeration listing each once); unrank(5,2,4) = [1,2], unrank(5,2,9) = [3,4].
C1_IdxthCombination ==
    /\ CombEntered /\ ValidArgs => pc # "StopIteration" /\ pc # "ValueError"
    /\ CombReturned /\ ValidArgs => result = ItCombinations(0, n, k)[idx + 1]
    /\ CombReturned /\ n = 5 /\ k = 2 /\ idx = 4 => result = <<1, 2>>
    /\ CombReturned /\ n = 5 /\ k = 2 /\ idx = 9 => result = <<3, 4>>

C1_Witness ==
    /\ pc = "_get_ith_comb_returned"
    /\ n = 5 /\ k = 2 /\ idx = 4 /\ result = <<1, 2>>

\* C2: _get_ith_comb returns a sequence only when the precondition holds; on
\* every violation (idx < 0, idx >= C(n,k), k > n, negative n or k) it fails.
C2_FailsOnViolation == CombReturned => ValidArgs

\* C3: for 0 <= k <= n, idx = 0 gives [0, ..., k-1] and idx = C(n,k) - 1 gives
\* [n-k, ..., n-1]; k = 0 gives the empty sequence, k = n gives [0, ..., n-1].
C3_Boundary ==
    CombReturned /\ 0 <= k /\ k <= n =>
        /\ idx = 0 => result = [j \in 1 .. k |-> j - 1]
        /\ idx = Comb(n, k) - 1 => result = [j \in 1 .. k |-> n - k + j - 1]
        /\ k = 0 /\ idx = 0 => result = <<>>
        /\ k = n /\ idx = 0 => result = [j \in 1 .. n |-> j - 1]

C3_Witness ==
    /\ pc = "_get_ith_comb_returned"
    /\ n = 5 /\ k = 3 /\ idx = Comb(5, 3) - 1 /\ result = <<2, 3, 4>>

\* The largest c in lo .. hi with comb(c, k_p_) <= above_, by bisection, given
\* that lo qualifies.
RECURSIVE BinarySearch(_, _, _, _)
BinarySearch(lo, hi, k_p_, above_) ==
    IF lo >= hi THEN lo
    ELSE LET mid == (lo + hi + 1) \div 2
         IN  IF Comb(mid, k_p_) <= above_
             THEN BinarySearch(mid, hi, k_p_, above_)
             ELSE BinarySearch(lo, mid - 1, k_p_, above_)

\* The unranker with each step's scan replaced by the bisection.
RECURSIVE UnrankBinaryFrom(_, _, _, _)
UnrankBinaryFrom(n_, n_p_, k_p_, above_) ==
    IF k_p_ = 0 THEN <<>>
    ELSE LET c == BinarySearch(0, n_p_ - 1, k_p_, above_)
         IN  <<n_ - 1 - c>> \o UnrankBinaryFrom(n_, c, k_p_ - 1, above_ - Comb(c, k_p_))
UnrankBinary(n_, k_, idx_) == UnrankBinaryFrom(n_, n_, k_, Comb(n_, k_) - 1 - idx_)

\* C9: for valid inputs, at every step the candidates c in [0, n_p) with
\* C(c, k_p) <= above are a prefix 0 .. m, the scan down from n_p - 1 finds that
\* m, the bisection finds the same m, and the unranker that bisects returns
\* what _get_ith_comb returns.
C9_BinarySearchSame ==
    /\ pc = "for" /\ iter < k /\ ValidArgs =>
          LET m == ScanDown(n_p - 1, k_p, above)
          IN  /\ m >= 0
              /\ {c \in 0 .. n_p - 1 : Comb(c, k_p) <= above} = 0 .. m
              /\ BinarySearch(0, n_p - 1, k_p, above) = m
    /\ CombReturned /\ ValidArgs => result = UnrankBinary(n, k, idx)

\* A step whose qualifying candidates are several, mid-loop.
C9_Witness ==
    /\ pc = "for" /\ ValidArgs /\ iter = 1 /\ iter < k
    /\ ScanDown(n_p - 1, k_p, above) >= 2
    /\ ScanDown(n_p - 1, k_p, above) < n_p - 1

\* C10, the state part: for valid inputs, at the start of every iteration
\* 0 <= above < C(n_p, k_p), hence n_p >= k_p >= 1, and a candidate qualifies;
\* when the loop ends k_p = 0 and above = 0.
C10_AtIteration ==
    /\ pc = "for" /\ iter < k /\ ValidArgs =>
          /\ 0 <= above /\ above < Comb(n_p, k_p)
          /\ n_p >= k_p /\ k_p >= 1
          /\ k_p = k - iter
          /\ ScanDown(n_p - 1, k_p, above) >= 0
    /\ pc = "for" /\ iter >= k /\ ValidArgs => k_p = 0 /\ above = 0
    /\ CombReturned /\ ValidArgs => k_p = 0 /\ above = 0 /\ iter = k
    /\ pc = "StopIteration" => ~ValidArgs

\* C10, the step part: an iteration strictly decreases n_p.
C10_Decreases == pc = "for" /\ pc' = "for" /\ ValidArgs => n_p' < n_p

\* C10: the loop invariant of _get_ith_comb for valid inputs: the state part
\* in every state and the step part on every step.
C10_LoopInvariant == [](C10_AtIteration) /\ [][C10_Decreases]_vars

C10_Witness ==
    /\ pc = "for" /\ ValidArgs /\ k = 3 /\ iter = 2
    /\ above > 0 /\ n_p < n - 2

\* The script's call (_pick_stocks) is past the digest extraction.
InPipeline == caller = "_main" /\ pc # "_get_bin_str_from_image"

StrictlyIncreasing(seq) == \A j \in 1 .. Len(seq) - 1 : seq[j] < seq[j + 1]

\* C4: for every digest and every universe of N >= N_PICKS unique labels,
\* _pick_stocks after the digest extraction raises nothing: the interpolated
\* rank is below C(N, K), the combination is K strictly increasing indices in
\* [0, N), and the K labels returned are pairwise distinct with
\* output[i] = universe[combination[i]].
C4_PickStocks ==
    /\ InPipeline => pc \notin {"StopIteration", "IndexError", "ValueError"}
    /\ InPipeline /\ pc \notin {"_interp_49_bit"} =>
          0 <= choice /\ choice < Comb(Len(SP_500), N_PICKS)
    /\ InPipeline /\ pc \in {"_pick_sp500_symbols_return", "_pick_stocks_returned"} =>
          /\ Len(result) = N_PICKS
          /\ StrictlyIncreasing(result)
          /\ \A j \in 1 .. Len(result) : 0 <= result[j] /\ result[j] < Len(SP_500)
    /\ InPipeline /\ pc = "_pick_stocks_returned" =>
          /\ Len(picks) = N_PICKS
          /\ \A j \in 1 .. N_PICKS : picks[j] = SP_500[result[j] + 1]
          /\ \A i, j \in 1 .. N_PICKS : i # j => picks[i] # picks[j]

\* The largest digest, on a universe with more than one combination.
C4_Witness ==
    /\ caller = "_main" /\ pc = "_pick_stocks_returned"
    /\ IntBase2(x) = Pow2(DigestBits) - 1
    /\ Len(SP_500) = N_PICKS + 1
    /\ result = <<1, 2, 3, 4>>
    /\ picks = <<"BBB", "CCC", "DDD", "EEE">>

\* _interp_49_bit has returned choice for the arguments x, y_sup.
InterpReturned ==
    \/ pc = "_interp_49_bit_returned"
    \/ caller = "_main" /\ pc \notin {"_get_bin_str_from_image", "_interp_49_bit"}

\* The digest a binary string denotes: the sum of digit p times
\* 2^(number of digits - p), the "0b" prefix left out.
RECURSIVE WeightedDigits(_, _)
WeightedDigits(d, upto) ==
    IF upto = 0 THEN 0
    ELSE WeightedDigits(d, upto - 1)
         + (IF d[upto] = "1" THEN Pow2(Len(d) - upto) ELSE 0)
DigestOf(x_) == WeightedDigits(SubSeq(x_, 3, Len(x_)), Len(x_) - 2)

\* floor(d * M / 2^(B^2)) in exact arithmetic.
ExactFloor(d, m_) == (d * m_) \div Pow2(DigestBits)

\* C5 as stated: _interp_49_bit returns floor(d / 2^(B^2) * M), an integer r
\* with 0 <= r < M; digest 0 gives rank 0.
C5_ExactFloor ==
    InterpReturned =>
        /\ choice = ExactFloor(DigestOf(x), y_sup)
        /\ 0 <= choice /\ choice < y_sup
        /\ DigestOf(x) = 0 => choice = 0

\* C5, amended: _interp_49_bit returns the floor of the product as rounded to
\* the float's mantissa: an integer r with 0 <= r < M that is floor(d*M/2^(B^2))
\* or one more, and is floor(d*M/2^(B^2)) whenever d*M has no more bits than the
\* mantissa (the product is then exact); digest 0 gives rank 0.
C5_RoundedFloor ==
    InterpReturned =>
        LET d == DigestOf(x)
        IN  /\ 0 <= choice /\ choice < y_sup
            /\ choice \in {ExactFloor(d, y_sup), ExactFloor(d, y_sup) + 1}
            /\ d * y_sup < Pow2(DBL_MANT_DIG) => choice = ExactFloor(d, y_sup)
            /\ d = 0 => choice = 0

\* A product that rounds up to the next integer.
C5_Witness ==
    /\ pc = "_interp_49_bit_returned"
    /\ choice = ExactFloor(DigestOf(x), y_sup) + 1

\* The "0b" string of SR_BITS**2 digits that denotes the digest d.
BinaryOf(d) ==
    <<"0", "b">> \o [p \in 1 .. DigestBits |->
                        IF (d \div Pow2(DigestBits - p)) % 2 = 1 THEN "1" ELSE "0"]

\* Every upper bound a call is made with.
UpperBounds == 1 .. MaxYSup \cup {Comb(len_, N_PICKS) : len_ \in N_PICKS .. MaxUniverse}

\* _interp_49_bit of every digest and upper bound, on the binary64-like float.
RankOf ==
    [y \in UpperBounds |->
        [d \in 0 .. Pow2(DigestBits) - 1 |-> Interp49Bit(BinaryOf(d), y, DBL_MANT_DIG)]]

\* C6: interpolation is monotone: for digests d1 < d2 and the same M > 0,
\* _interp_49_bit(d1, M) <= _interp_49_bit(d2, M).
C6_Monotone ==
    InterpReturned =>
        \A d2 \in DigestOf(x) + 1 .. Pow2(DigestBits) - 1 :
            choice <= RankOf[y_sup][d2]

\* A digest whose rank is strictly below that of the next digest but equal to
\* that of the previous one.
C6_Witness ==
    /\ pc = "_interp_49_bit_returned"
    /\ DigestOf(x) > 0 /\ DigestOf(x) < Pow2(DigestBits) - 1
    /\ RankOf[y_sup][DigestOf(x) - 1] = choice
    /\ choice < RankOf[y_sup][DigestOf(x) + 1]

\* The image's call is past _get_bin_str_from_image.
BinStrReturned == caller = "_main" /\ Len(rows) = SR_BITS /\ Len(cols) = SR_BITS

\* sum over i, j in [0, B) of [r[i] = c[j]] * 2^(B^2 - 1 - (i*B + j)), summed
\* over the positions p = i*B + j below upto.
RECURSIVE DigestSum(_, _, _)
DigestSum(r, c, upto) ==
    IF upto = 0 THEN 0
    ELSE LET p == upto - 1
             i == p \div SR_BITS
             j == p % SR_BITS
         IN  DigestSum(r, c, p)
             + (IF r[i + 1] = c[j + 1] THEN Pow2(DigestBits - 1 - (i * SR_BITS + j)) ELSE 0)

\* C7: the digest of the thresholded samples r, c is the integer whose bit
\* (i, j), row-major and first bit most significant, is 1 iff r[i] = c[j]:
\* the sum of [r[i] = c[j]] * 2^(B^2 - 1 - (i*B + j)), in [0, 2^(B^2)).
C7_Digest ==
    BinStrReturned =>
        /\ Len(x) = 2 + DigestBits
        /\ IntBase2(x) = DigestSum(rows, cols, DigestBits)
        /\ 0 <= IntBase2(x) /\ IntBase2(x) < Pow2(DigestBits)

\* Samples on which the row-major and the column-major digests differ.
C7_Witness ==
    /\ BinStrReturned
    /\ rows[1] # rows[2] /\ cols[1] = cols[2]
    /\ IntBase2(x) = DigestSum(rows, cols, DigestBits)

\* C8: the precision assert passes only on a representation with at least
\* B^2 mantissa bits: with fewer the import fails, and nothing is interpolated.
C8_AssertNeedsDigestBits ==
    pc \notin {"import", "AssertionError"} => mant_dig >= DigestBits

=============================================================================
